---- MODULE Spec2Model ----
(***************************************************************************)
(* Matchmaking and session lifecycle of backend/game/__init__.py:          *)
(* WaitingRoom, Game (a Session) and GameApp, run by one asyncio event     *)
(* loop.  A step of the model is what one task does between two            *)
(* suspension points (an awaited emit or sleep): handlers are atomic up to *)
(* the emit they await, and resume after it as a separate step.            *)
(***************************************************************************)
EXTENDS Integers, Sequences, FiniteSets, TLC

\* ------------------------------------------------------------- bounds
MaxNicks == 2       \* clients that register, in Spec and SpecConnected
MaxRoomNicks == 3   \* clients that register, in SpecRoom
MaxReconnects == 1  \* reconnections (add_player of a registered nick from a new id)
MaxCapacity == 3    \* WaitingRoom(capacity) is constructed with 1..MaxCapacity
MaxGames == 2       \* Games the matchmaking loop creates
MaxGamesReconnected == 1    \* Games it creates in a run with a reconnection
MaxBattles == 2     \* times Game.battle is entered, over all Games
MaxSessionNicks == 4 \* clients that register, in SpecSessions

\* ---------------------------------------------------- program constants
RandomSeed == 17    \* start_simulation(random_seed=17)
DefaultCapacity == 2    \* WaitingRoom.__init__(capacity=2)

\* Clients are numbered in the order in which they first register, and a
\* client's nickname is its number.
Nicks == 1..MaxNicks
\* The transport gives every connection an id of its own: the id of the
\* k-th connection of client n is <<n, k>>.  A client opens its connections
\* in this order and registers from the latest one.
Ids == Nicks \X (1..(MaxReconnects + 1))
\* in SpecRoom every client keeps its first connection
RoomIds == (1..MaxRoomNicks) \X {1}
\* and so it does in SpecSessions
SessionIds == (1..MaxSessionNicks) \X {1}

GAME_STARTED == "GAME_STARTED"
GAME_RESULT == "GAME_RESULT"
BATTLE_STARTED == "BATTLE_STARTED"
SCORE == "SCORE"
UNITS_READY == "UNITS_READY"

VARIABLES
    players,        \* GameApp.players: list of Player [nick, id, in_game]
    waiting_room,   \* WaitingRoom.players: set of Players (indices of players)
    capacity,       \* WaitingRoom.capacity
    current_games,  \* GameApp.current_games: list of Game
    sio_handlers,   \* the server's handler table: event -> Game (0: none)
    loop            \* the start_games task: where it is suspended

vars == <<players, waiting_room, capacity, current_games, sio_handlers, loop>>

Min(S) == CHOOSE x \in S : \A y \in S : x <= y

\* ------------------------------------------------------------ messages
Text(text, a, b, seed) == [text |-> text, a |-> a, b |-> b, seed |-> seed]
NoText == Text("", 0, 0, 0)
GameStartedText == Text("game started", 0, 0, 0)
WalkoverText == Text("Player disconnected, walkover", 0, 0, 0)
\* A call of sio.emit.  room=player.id is the id the player has when the call
\* is made: the message goes to that player, recorded as to (0: no room=, a
\* broadcast).
Emit(event, to, message, logs) ==
    [event |-> event, to |-> to, message |-> message, logs |-> logs]

\* -------------------------------------------------------------- Player
Player(nick, id) == [nick |-> nick, id |-> id, in_game |-> FALSE]
reconnect(p, id) == [p EXCEPT !.id = id]
disconnect(p) == [p EXCEPT !.in_game = FALSE]
reset_after_game(p) == [p EXCEPT !.in_game = FALSE]

\* --------------------------------------------------------- WaitingRoom
\* a room counted as full as soon as it holds a pair
holds_a_pair(wr) == Cardinality(wr) >= 2

is_full(wr) == Cardinality(wr) = capacity

\* join without the is_full check
join_when_absent(wr, p) == IF p \notin wr THEN wr \cup {p} ELSE wr

join(wr, p) == IF ~is_full(wr) /\ p \notin wr THEN wr \cup {p} ELSE wr

\* leave that empties the room of a member who leaves
leave_with_everyone(wr, p) == IF p \in wr THEN {} ELSE wr

leave(wr, p) == IF p \in wr THEN wr \ {p} ELSE wr

\* a sample that always fails
sample_none(wr) == {}

\* random.sample(self.players, 2): every ordered pair of distinct members;
\* none (ValueError) when there are fewer than two.
sample_two(wr) == {pr \in wr \X wr : pr[1] # pr[2]}

\* the draw that discards only the first of the two players from the room
draw_discarding_one(wr, ps, pr) ==
    [room |-> wr \ {pr[1]},
     players |-> [i \in DOMAIN ps |->
                    IF i \in {pr[1], pr[2]} THEN [ps[i] EXCEPT !.in_game = TRUE]
                    ELSE ps[i]],
     result |-> pr]

\* draw_two_players_to_game for one outcome pr of the sample
draw_two_players_to_game(wr, ps, pr) ==
    [room |-> wr \ {pr[1], pr[2]},
     players |-> [i \in DOMAIN ps |->
                    IF i \in {pr[1], pr[2]} THEN [ps[i] EXCEPT !.in_game = TRUE]
                    ELSE ps[i]],
     result |-> pr]

\* ---------------------------------------------------------------- Game
NewGame(ps, pr) ==
    [players |-> pr,
     is_finished |-> FALSE,
     players_quiz_and_units_ready |->
        [id \in {ps[pr[1]].id, ps[pr[2]].id} |-> [units |-> FALSE, quiz |-> FALSE]],
     battles |-> <<>>,     \* the calls of battle(): where each is suspended
     seeds |-> {},         \* the random_seed of each start_simulation call
     emitted |-> {}]       \* the messages this Game gave to sio.emit

\* start_game_if_ready looking at the units flags only
all_ready_units_only(ready) == \A id \in DOMAIN ready : ready[id].units

all_ready(ready) == \A id \in DOMAIN ready : ready[id].units /\ ready[id].quiz

_all_players_connected(g, ps) == \A k \in 1..2 : ps[g.players[k]].in_game

\* loop of send_game_results: the next player after position k who is in_game
NextInGame(g, ps, k) ==
    LET S == {j \in (k+1)..2 : ps[g.players[j]].in_game}
    IN IF S = {} THEN 0 ELSE Min(S)

start_simulation(g, ps, seed) ==
    [message |-> Text("result", ps[g.players[1]].nick, ps[g.players[2]].nick, seed),
     logs |-> Text("logs", ps[g.players[1]].nick, ps[g.players[2]].nick, seed)]

\* ------------------------------------------------------------- GameApp
\* the lookup with its comparison inverted: the first Player of another nick
get_player_by_other_nick(ps, nick) ==
    LET S == {i \in DOMAIN ps : ps[i].nick # nick}
    IN IF S = {} THEN 0 ELSE Min(S)

get_player_by_nick(ps, nick) ==
    LET S == {i \in DOMAIN ps : ps[i].nick = nick}
    IN IF S = {} THEN 0 ELSE Min(S)

\* the lookup returning the first matching Game instead of the last
get_player_game_first(games, ps, nick) ==
    LET gs == SelectSeq([i \in DOMAIN games |-> i],
                        LAMBDA i : \E k \in 1..2 : ps[games[i].players[k]].nick = nick)
    IN IF Len(gs) > 0 THEN gs[1] ELSE 0

get_player_game(games, ps, nick) ==
    LET gs == SelectSeq([i \in DOMAIN games |-> i],
                        LAMBDA i : \E k \in 1..2 : ps[games[i].players[k]].nick = nick)
    IN IF Len(gs) > 0 THEN gs[Len(gs)] ELSE 0

\* add_player that registers a new Player without enrolling it
add_player_without_join(ps, wr, nick, id) ==
    LET existing_player == get_player_by_nick(ps, nick)
    IN IF existing_player # 0
       THEN [players |-> [ps EXCEPT ![existing_player] = reconnect(@, id)],
             room |-> wr,
             result |-> existing_player]
       ELSE [players |-> Append(ps, Player(nick, id)),
             room |-> wr,
             result |-> Len(ps) + 1]

\* add_player as a function of the state: the registry, the room, the result
add_player_result(ps, wr, nick, id) ==
    LET existing_player == get_player_by_nick(ps, nick)
    IN IF existing_player # 0
       THEN [players |-> [ps EXCEPT ![existing_player] = reconnect(@, id)],
             room |-> wr,
             result |-> existing_player]
       ELSE [players |-> Append(ps, Player(nick, id)),
             room |-> join(wr, Len(ps) + 1),
             result |-> Len(ps) + 1]

RECURSIVE Reconnects(_, _)
Reconnects(ps, n) == IF n = 0 THEN 0 ELSE (ps[n].id[2] - 1) + Reconnects(ps, n - 1)

RECURSIVE SumBattles(_, _)
SumBattles(games, n) == IF n = 0 THEN 0 ELSE Len(games[n].battles) + SumBattles(games, n - 1)
BattlesEntered == SumBattles(current_games, Len(current_games))

\* GameApp.__init__: the WaitingRoom has the default capacity
Init ==
    /\ players = <<>>
    /\ waiting_room = {}
    /\ capacity = DefaultCapacity
    /\ current_games = <<>>
    /\ sio_handlers = [e \in {SCORE, UNITS_READY} |-> 0]
    /\ loop = [pc |-> "sleep", game |-> 0, i |-> 0]

add_player(nick, id) ==
    LET r == add_player_result(players, waiting_room, nick, id)
    IN /\ IF get_player_by_nick(players, nick) = 0
          THEN nick = Len(players) + 1 /\ id[2] = 1
          ELSE /\ players[get_player_by_nick(players, nick)].id[2] <= id[2]
               /\ Reconnects(r.players, Len(r.players)) <= MaxReconnects
               /\ id[2] > players[get_player_by_nick(players, nick)].id[2]
                    => Len(current_games) <= MaxGamesReconnected
       /\ players' = r.players
       /\ waiting_room' = r.room
       /\ UNCHANGED <<capacity, current_games, sio_handlers, loop>>

disconnect_player(p) ==
    /\ players' = [players EXCEPT ![p] = disconnect(@)]
    /\ waiting_room' = leave(waiting_room, p)
    /\ UNCHANGED <<capacity, current_games, sio_handlers, loop>>

add_player_to_waiting_room(p) ==
    /\ waiting_room' = join(waiting_room, p)
    /\ UNCHANGED <<players, capacity, current_games, sio_handlers, loop>>

\* One iteration of the loop of start_games, from the end of its sleep to the
\* next suspension: the first emit of set_on_game_started, or the next sleep.
\* random.sample raises ValueError on a full room of fewer than two members
\* and the task ends.
start_games ==
    /\ loop.pc = "sleep"
    /\ IF ~is_full(waiting_room)
       THEN UNCHANGED vars
       ELSE IF sample_two(waiting_room) = {}
       THEN /\ loop' = [loop EXCEPT !.pc = "ValueError"]
            /\ UNCHANGED <<players, waiting_room, capacity, current_games,
                           sio_handlers>>
       ELSE /\ Len(current_games) < MaxGames
            /\ Reconnects(players, Len(players)) > 0
                 => Len(current_games) < MaxGamesReconnected
            /\ \E pr \in sample_two(waiting_room) :
                 LET d == draw_two_players_to_game(waiting_room, players, pr)
                     game == NewGame(d.players, d.result)
                     g == Len(current_games) + 1
                     j == NextInGame(game, d.players, 0)
                 IN /\ waiting_room' = d.room
                    /\ players' = d.players
                    /\ sio_handlers' = [e \in {SCORE, UNITS_READY} |-> g]
                    /\ IF _all_players_connected(game, d.players)
                       THEN /\ current_games' = Append(current_games,
                                 [game EXCEPT !.emitted =
                                    {Emit(GAME_STARTED, game.players[1],
                                          GameStartedText, NoText)}])
                            /\ loop' = [pc |-> "game_started", game |-> g, i |-> 1]
                       ELSE IF j # 0
                       THEN /\ current_games' = Append(current_games,
                                 [game EXCEPT !.emitted =
                                    {Emit(GAME_RESULT, game.players[j],
                                          WalkoverText, NoText)}])
                            /\ loop' = [pc |-> "game_result", game |-> g, i |-> j]
                       ELSE /\ current_games' = Append(current_games, game)
                            /\ loop' = [pc |-> "sleep", game |-> 0, i |-> 0]
                    /\ UNCHANGED capacity

\* start_games resumes after an emit of set_on_game_started or of the
\* send_game_results it called, and runs to the next emit or to the sleep.
set_on_game_started_resume ==
    /\ loop.pc \in {"game_started", "game_result"}
    /\ LET game == current_games[loop.game]
           j == IF loop.pc = "game_started"
                THEN (IF loop.i < 2 THEN loop.i + 1 ELSE 0)
                ELSE NextInGame(game, players, loop.i)
       IN IF j # 0
          THEN /\ current_games' = [current_games EXCEPT ![loop.game].emitted = @ \cup
                    {IF loop.pc = "game_started"
                     THEN Emit(GAME_STARTED, game.players[j],
                               GameStartedText, NoText)
                     ELSE Emit(GAME_RESULT, game.players[j],
                               WalkoverText, NoText)}]
               /\ loop' = [loop EXCEPT !.i = j]
          ELSE /\ current_games' = current_games
               /\ loop' = [pc |-> "sleep", game |-> 0, i |-> 0]
    /\ UNCHANGED <<players, waiting_room, capacity, sio_handlers>>

\* the check of the sender made against the keys of the readiness map, the ids
\* the players had when the Game was constructed
save_outcome_by_key(game, ps, sid) ==
    IF sid \in DOMAIN game.players_quiz_and_units_ready THEN "saved" ELSE "ignored"

\* What save_what_is_ready does with a signal: "ignored" (the early return),
\* "KeyError" (the id is a player's but no key of the readiness map), "saved".
save_outcome(game, ps, sid) ==
    IF ~(ps[game.players[1]].id = sid \/ ps[game.players[2]].id = sid)
    THEN "ignored"
    ELSE IF sid \notin DOMAIN game.players_quiz_and_units_ready
    THEN "KeyError"
    ELSE "saved"

\* save_what_is_ready, start_game_if_ready and battle up to its first emit
save_what_is_ready(g, sid, what_is_ready) ==
    LET game == current_games[g]
        ready == [game.players_quiz_and_units_ready EXCEPT ![sid][what_is_ready] = TRUE]
    IN IF save_outcome(game, players, sid) # "saved"
       THEN UNCHANGED vars
       ELSE IF ~all_ready(ready)
       THEN /\ current_games' = [current_games EXCEPT
                    ![g].players_quiz_and_units_ready = ready]
            /\ UNCHANGED <<players, waiting_room, capacity, sio_handlers, loop>>
       ELSE /\ BattlesEntered < MaxBattles
            /\ current_games' = [current_games EXCEPT
                    ![g].players_quiz_and_units_ready = ready,
                    ![g].battles = Append(@, [pc |-> "battle_started", i |-> 0]),
                    ![g].emitted = @ \cup
                       {Emit(BATTLE_STARTED, 0,
                             Text("Battle started", players[game.players[1]].nick,
                                  players[game.players[2]].nick, 0), NoText)}]
            /\ UNCHANGED <<players, waiting_room, capacity, sio_handlers, loop>>

\* The server calls the handler registered for the event: sio.on replaces the
\* handler registered before, so the last Game constructed receives it.
quiz_results_ready(sid) ==
    /\ sio_handlers[SCORE] # 0
    /\ save_what_is_ready(sio_handlers[SCORE], sid, "quiz")

units_ready(sid) ==
    /\ sio_handlers[UNITS_READY] # 0
    /\ save_what_is_ready(sio_handlers[UNITS_READY], sid, "units")

\* battle number b of Game g resumes after an emit: after BATTLE_STARTED it runs
\* the simulation and send_game_results to its first emit; after a GAME_RESULT
\* it goes on to the next one, or resets the players and finishes.
battle_resume(g, b) ==
    LET game == current_games[g]
        task == game.battles[b]
        sim == start_simulation(game, players, RandomSeed)
        j == NextInGame(game, players, task.i)
    IN /\ task.pc \in {"battle_started", "game_result"}
       /\ IF j # 0
          THEN /\ current_games' = [current_games EXCEPT
                    ![g].emitted = @ \cup
                       {Emit(GAME_RESULT, game.players[j],
                             sim.message, sim.logs)},
                    ![g].battles[b] = [pc |-> "game_result", i |-> j],
                    ![g].seeds = IF task.pc = "battle_started"
                                 THEN @ \cup {RandomSeed} ELSE @]
               /\ players' = players
          ELSE /\ players' = [p \in DOMAIN players |->
                                IF p \in {game.players[1], game.players[2]}
                                THEN reset_after_game(players[p]) ELSE players[p]]
               /\ current_games' = [current_games EXCEPT
                    ![g].battles[b] = [pc |-> "done", i |-> 0],
                    ![g].is_finished = TRUE,
                    ![g].seeds = IF task.pc = "battle_started"
                                 THEN @ \cup {RandomSeed} ELSE @]
       /\ UNCHANGED <<waiting_room, capacity, sio_handlers, loop>>

Next ==
    \/ \E id \in Ids : add_player(id[1], id)
    \/ \E p \in DOMAIN players : disconnect_player(p)
    \/ \E p \in DOMAIN players : add_player_to_waiting_room(p)
    \/ start_games
    \/ set_on_game_started_resume
    \/ \E sid \in Ids : quiz_results_ready(sid)
    \/ \E sid \in Ids : units_ready(sid)
    \/ \E g \in DOMAIN current_games :
         \E b \in DOMAIN current_games[g].battles : battle_resume(g, b)

Spec == Init /\ [][Next]_vars

\* The players stay connected: no disconnect_player.
NextConnected ==
    \/ \E id \in Ids : add_player(id[1], id)
    \/ \E p \in DOMAIN players : add_player_to_waiting_room(p)
    \/ start_games
    \/ set_on_game_started_resume
    \/ \E sid \in Ids : quiz_results_ready(sid)
    \/ \E sid \in Ids : units_ready(sid)
    \/ \E g \in DOMAIN current_games :
         \E b \in DOMAIN current_games[g].battles : battle_resume(g, b)

SpecConnected == Init /\ [][NextConnected]_vars

\* The registry, the WaitingRoom and the matchmaking loop with more clients and
\* a WaitingRoom of any capacity; no client reconnects or sends a readiness
\* signal.
InitRoom ==
    /\ players = <<>>
    /\ waiting_room = {}
    /\ capacity \in 1..MaxCapacity
    /\ current_games = <<>>
    /\ sio_handlers = [e \in {SCORE, UNITS_READY} |-> 0]
    /\ loop = [pc |-> "sleep", game |-> 0, i |-> 0]

NextRoom ==
    \/ \E id \in RoomIds : add_player(id[1], id)
    \/ \E p \in DOMAIN players : disconnect_player(p)
    \/ \E p \in DOMAIN players : add_player_to_waiting_room(p)
    \/ start_games
    \/ set_on_game_started_resume

SpecRoom == InitRoom /\ [][NextRoom]_vars

\* The registry, the WaitingRoom of GameApp and the matchmaking loop, with the
\* scheduling of the event loop: the sleep of a tick ends and an awaited emit
\* returns, so a step of the start_games task that stays possible is taken.
SpecRoomFair ==
    /\ Init
    /\ [][NextRoom]_vars
    /\ WF_vars(start_games)
    /\ WF_vars(set_on_game_started_resume)

\* Sessions side by side: enough clients for two Sessions of different
\* players, who register once, stay connected and send their readiness signals.
NextSessions ==
    \/ \E id \in SessionIds : add_player(id[1], id)
    \/ start_games
    \/ set_on_game_started_resume
    \/ \E sid \in SessionIds : quiz_results_ready(sid)
    \/ \E sid \in SessionIds : units_ready(sid)
    \/ \E g \in DOMAIN current_games :
         \E b \in DOMAIN current_games[g].battles : battle_resume(g, b)

SpecSessions == Init /\ [][NextSessions]_vars

\* ------------------------------------------------------------- claims
GamePlayers(game) == {game.players[1], game.players[2]}

Max(S) == CHOOSE x \in S : \A y \in S : x >= y

\* the readiness flags of a Game that are true
FlagsTrue(game) ==
    Cardinality({f \in (DOMAIN game.players_quiz_and_units_ready) \X {"units", "quiz"} :
                    game.players_quiz_and_units_ready[f[1]][f[2]]})

\* C1: a Session starts its battle exactly once over its lifetime: battle() is
\* entered at most once for every Game, whatever signals arrive and whenever.
C1_BattleStartedOnce ==
    \A g \in DOMAIN current_games : Len(current_games[g].battles) <= 1

\* C2: a battle has been started only if the readiness map holds both flags of
\* both players and all four are true; and a step starts a Game's first battle
\* exactly when it sets the last missing flag (the fourth), so none of the
\* first three signals starts it and the fourth does.
C2_StartedOnlyWhenReady ==
    \A g \in DOMAIN current_games :
        current_games[g].battles # <<>> =>
            /\ Cardinality(DOMAIN current_games[g].players_quiz_and_units_ready) = 2
            /\ FlagsTrue(current_games[g]) = 4

C2_StartedByTheFourth ==
    \A g \in DOMAIN current_games :
        (FlagsTrue(current_games[g]) = 3 /\ FlagsTrue(current_games'[g]) = 4)
            <=> (current_games[g].battles = <<>> /\ current_games'[g].battles # <<>>)

C2_BattleIffAllReady == [] C2_StartedOnlyWhenReady /\ [][C2_StartedByTheFourth]_vars

\* a Game whose fourth signal has just started its battle
C2_Witness ==
    \E g \in DOMAIN current_games :
        /\ Len(current_games[g].battles) = 1
        /\ current_games[g].battles[1].pc = "battle_started"

\* C3: walkover scenario.  With a capacity-2 room, A registered and waiting, B
\* registered and then disconnected, and no tick yet, the tick draws {A, B},
\* creates a Session and calls set_on_game_started, which sends GAME_RESULT
\* with the walkover message and empty logs to A only and no GAME_STARTED.
C3_Scenario(a, b) ==
    /\ capacity = 2
    /\ DOMAIN players = {a, b} /\ a # b
    /\ waiting_room = {a}
    /\ current_games = <<>>
    /\ loop.pc = "sleep"

C3_Walkover ==
    \A a, b \in DOMAIN players :
        C3_Scenario(a, b) =>
            ENABLED (/\ start_games
                     /\ Len(current_games') = 1
                     /\ GamePlayers(current_games'[1]) = {a, b}
                     /\ current_games'[1].emitted =
                            {Emit(GAME_RESULT, a, WalkoverText, NoText)}
                     /\ current_games'[1].battles = <<>>)

\* C4: full match.  When the players stay connected, at the step that finishes
\* a Session the outcome engine has been called with seed 17 only, each of
\* the two players has been sent a GAME_RESULT by the Session, both with the
\* same message and logs, and both players' in_game is false.
C4_FullMatch ==
    [][\A g \in DOMAIN current_games :
         (~current_games[g].is_finished /\ current_games'[g].is_finished) =>
            LET game == current_games'[g]
                results == {m \in game.emitted : m.event = GAME_RESULT}
            IN /\ game.seeds = {RandomSeed}
               /\ \A p \in GamePlayers(game) :
                     /\ \E m \in results : m.to = p
                     /\ ~players'[p].in_game
               /\ \A m1, m2 \in results :
                     m1.message = m2.message /\ m1.logs = m2.logs]_vars

\* C5: the WaitingRoom never holds more members than its capacity.
C5_AtMostCapacity == Cardinality(waiting_room) <= capacity

\* a registered player was refused by a full room: nobody has been drawn or has
\* left, and one more player is registered than the room holds
C5_Witness ==
    /\ current_games = <<>>
    /\ Cardinality(waiting_room) = capacity
    /\ Len(players) > capacity
    /\ \A p \in DOMAIN players : p \notin waiting_room => ~players[p].in_game

\* C6: a draw from a room of at least two members returns two distinct players
\* that were members; after it both are absent from the room and in_game, and
\* every other member is still a member (and nobody else has become one).
C6_Draw ==
    [][Len(current_games') > Len(current_games) =>
         LET pr == current_games'[Len(current_games')].players
         IN /\ Cardinality(waiting_room) >= 2
            /\ pr[1] # pr[2]
            /\ {pr[1], pr[2]} \subseteq waiting_room
            /\ waiting_room' = waiting_room \ {pr[1], pr[2]}
            /\ players'[pr[1]].in_game /\ players'[pr[2]].in_game
            /\ \A p \in DOMAIN players \ {pr[1], pr[2]} : players'[p] = players[p]]_vars

\* a draw has just left a third member in the room
C6_Witness ==
    /\ loop.pc = "game_started" /\ loop.i = 1
    /\ waiting_room # {}
    /\ waiting_room \cap GamePlayers(current_games[loop.game]) = {}

\* C7: every player is in the players pair of at most one unfinished Session.
C7_OneUnfinishedSession ==
    \A p \in DOMAIN players :
        Cardinality({g \in DOMAIN current_games :
                        /\ ~current_games[g].is_finished
                        /\ p \in GamePlayers(current_games[g])}) <= 1

\* C8: no two entries of the registry have the same nickname, and add_player
\* with the nickname of a registered Player and any id returns that Player,
\* with its id set to the new id and nothing else in the registry changed.
C8_Reconnect ==
    /\ \A p, q \in DOMAIN players : players[p].nick = players[q].nick => p = q
    /\ \A p \in DOMAIN players : \A id \in Ids :
          LET r == add_player_result(players, waiting_room, players[p].nick, id)
          IN /\ r.result = p
             /\ r.players = [players EXCEPT ![p].id = id]
             /\ r.room = waiting_room

\* a registered player has reconnected with a new id
C8_Witness == \E p \in DOMAIN players : players[p].id[2] > 1

\* C9 as claimed: a newly registered Player is in the registry and a member of
\* the WaitingRoom after add_player, whatever the room held before.
C9_NewPlayerEnrolled ==
    [][Len(players') > Len(players) =>
         /\ SubSeq(players', 1, Len(players)) = players
         /\ Len(players') \in waiting_room']_vars

\* C9 as amended: a newly registered Player is in the registry after
\* add_player, and is a member of the WaitingRoom exactly if the room was not
\* full (held other than capacity members) before the call.
C9_NewPlayerEnrolledUnlessFull ==
    [][Len(players') > Len(players) =>
         /\ Len(players') = Len(players) + 1
         /\ SubSeq(players', 1, Len(players)) = players
         /\ (Len(players') \in waiting_room' <=> Cardinality(waiting_room) # capacity)
         /\ waiting_room' \ {Len(players')} = waiting_room]_vars

\* the last registered player has never been in the room, which was full
C9_Witness ==
    /\ current_games = <<>>
    /\ capacity = 2 /\ Len(players) = 3
    /\ waiting_room = {1, 2}
    /\ \A p \in DOMAIN players : ~players[p].in_game

\* C10: get_player_game(nick) is none (0) when no Session holds a player of
\* that nickname, and otherwise the Session of the highest index in
\* current_games among those that do.
C10_LastGame ==
    \A nick \in 1..MaxRoomNicks :
        LET S == {g \in DOMAIN current_games :
                    \E p \in GamePlayers(current_games[g]) : players[p].nick = nick}
        IN get_player_game(current_games, players, nick)
              = IF S = {} THEN 0 ELSE Max(S)

\* some nickname is in two Sessions and another in none
C10_Witness ==
    /\ \E p \in DOMAIN players :
          \A g \in DOMAIN current_games : p \notin GamePlayers(current_games[g])
    /\ \E p \in DOMAIN players :
          Cardinality({g \in DOMAIN current_games :
                          p \in GamePlayers(current_games[g])}) = 2

\* the id sid is the id of neither player of the Game
Stray(game, sid) ==
    /\ players[game.players[1]].id # sid
    /\ players[game.players[2]].id # sid

\* C11: a readiness signal of either kind whose connection id is the id of
\* neither player of the Session is handled and changes nothing: no flag, not
\* is_finished, no battle, no message emitted (nor anything else).
C11_StraySignalIgnored ==
    \A g \in DOMAIN current_games : \A sid \in Ids :
        Stray(current_games[g], sid) =>
            \A what \in {"quiz", "units"} :
                /\ ENABLED save_what_is_ready(g, sid, what)
                /\ ~ENABLED (save_what_is_ready(g, sid, what) /\ vars' # vars)

\* a Session with a flag set and a battle still to start, one of whose players
\* has reconnected: the id that keys its flags is no longer a player's id
C11_Witness ==
    \E g \in DOMAIN current_games :
        /\ sio_handlers[SCORE] = g
        /\ FlagsTrue(current_games[g]) \in 1..3
        /\ \E sid \in DOMAIN current_games[g].players_quiz_and_units_ready :
              Stray(current_games[g], sid)

\* C12: a draw from a WaitingRoom of fewer than two members fails with the
\* explicit InsufficientMembers error, and leaves the members and every
\* player's in_game as they were.
C12_InsufficientMembers ==
    [][(loop.pc = "sleep" /\ loop'.pc # "sleep" /\ Cardinality(waiting_room) < 2) =>
         /\ loop'.pc = "InsufficientMembers"
         /\ waiting_room' = waiting_room
         /\ players' = players]_vars

\* C13: the start_games task never ends: it is always suspended in its sleep or
\* in an emit of set_on_game_started, from which it goes on to later ticks.
C13_LoopNeverTerminates == loop.pc \in {"sleep", "game_started", "game_result"}

\* C14: the is_full check and the draw of a tick are one step.  Every draw, the
\* failed one included, is made on a room that holds capacity members at the
\* moment of the draw, and every Session is created from two distinct players
\* who are members at that moment.
C14_CheckAndDrawAtomic ==
    [][/\ Len(current_games') > Len(current_games) =>
            LET game == current_games'[Len(current_games')]
            IN /\ Cardinality(waiting_room) = capacity
               /\ Cardinality(GamePlayers(game)) = 2
               /\ GamePlayers(game) \subseteq waiting_room
       /\ (loop.pc # "ValueError" /\ loop'.pc = "ValueError") =>
            Cardinality(waiting_room) = capacity]_vars

\* a Session has just been drawn from a full room of three
C14_Witness ==
    /\ capacity = 3
    /\ loop.pc = "game_started" /\ loop.i = 1
    /\ Cardinality(waiting_room) = 1

\* the calls of battle() of a Game that have not returned: each is the tail of
\* a signal's handler, suspended in an awaited emit
Suspended(game) == {b \in DOMAIN game.battles : game.battles[b].pc # "done"}

\* C15: the readiness signals of a Session are handled one at a time: no
\* handler of a signal begins for a Session while the handler of an earlier
\* signal, with the battle it started and its emits, has not returned.
C15_OneHandlerAtATime ==
    [][\A g \in DOMAIN current_games :
         Suspended(current_games[g]) # {} =>
            Suspended(current_games'[g]) \subseteq Suspended(current_games[g])]_vars

\* C16: disconnect_player(player) can always be called; it takes the player out
\* of the WaitingRoom if it is a member and leaves every other member in
\* place; if the player is not a member the members are unchanged; and in
\* both cases current_games (every Session's flags and is_finished) and the
\* other Players are unchanged.
C16_Disconnect ==
    \A p \in DOMAIN players :
        /\ ENABLED disconnect_player(p)
        /\ ~ENABLED (/\ disconnect_player(p)
                     /\ ~(/\ waiting_room' = waiting_room \ {p}
                          /\ current_games' = current_games
                          /\ \A q \in DOMAIN players \ {p} : players'[q] = players[q]))

\* a player of the only Session, unfinished and with a flag set, has been
\* disconnected after the draw
C16_Witness ==
    /\ Len(current_games) = 1
    /\ ~current_games[1].is_finished
    /\ FlagsTrue(current_games[1]) >= 1
    /\ \E p \in GamePlayers(current_games[1]) :
          ~players[p].in_game /\ p \notin waiting_room

\* C17: in every reachable state the readiness map of every Session has one
\* entry for each of its two players, keyed by the id the player has now, so
\* that no signal fails: one from a player's current id finds its entry.
C17_ReadinessKeyedByCurrentId ==
    \A g \in DOMAIN current_games :
        /\ DOMAIN current_games[g].players_quiz_and_units_ready
              = {players[p].id : p \in GamePlayers(current_games[g])}
        /\ \A sid \in Ids : save_outcome(current_games[g], players, sid) # "KeyError"

\* C18: with several Sessions at once, a readiness signal sent by a player of
\* an unfinished Session, the earlier-created ones included, is handled and
\* sets that player's flag in that Session, and changes no flag of any other
\* Session.  (Stated for a Session at least two flags short of its battle.)
C18_SignalReachesItsSession ==
    \A g \in DOMAIN current_games : \A p \in GamePlayers(current_games[g]) :
        (~current_games[g].is_finished /\ FlagsTrue(current_games[g]) < 3) =>
            ENABLED (/\ quiz_results_ready(players[p].id)
                     /\ current_games'[g].players_quiz_and_units_ready[players[p].id].quiz
                     /\ \A h \in DOMAIN current_games \ {g} :
                           current_games'[h].players_quiz_and_units_ready
                              = current_games[h].players_quiz_and_units_ready)

\* current_games is only appended to, and what is appended is a Session of two
\* members of the room on which set_on_game_started has been called
C19_AppendOnly ==
    /\ Len(current_games') >= Len(current_games)
    /\ \A g \in DOMAIN current_games :
          current_games'[g].players = current_games[g].players
    /\ Len(current_games') > Len(current_games) =>
          LET game == current_games'[Len(current_games')]
          IN /\ Len(current_games') = Len(current_games) + 1
             /\ GamePlayers(game) \subseteq waiting_room
             /\ loop'.pc \in {"game_started", "game_result"}
             /\ loop'.game = Len(current_games')
             /\ game.emitted # {}

\* C19: with the ticks of the matchmaking loop scheduled fairly, a WaitingRoom
\* that is full leads to a new Session being appended to current_games,
\* unless a member leaves first; the Session holds two members of the room
\* and set_on_game_started is called on it; and current_games is never
\* shortened or reordered.  (Stated for the Sessions the model lets the loop
\* create: fewer than MaxGames exist.)
C19_FullRoomIsMatched ==
    /\ \A n \in 0..(MaxGames - 1) :
          (Cardinality(waiting_room) = capacity /\ Len(current_games) = n)
             ~> (Cardinality(waiting_room) # capacity \/ Len(current_games) > n)
    /\ [][C19_AppendOnly]_vars

\* a second Session has just been appended and its players are being notified
C19_Witness ==
    /\ Len(current_games) = 2
    /\ loop.pc = "game_started" /\ loop.game = 2
====
